---- MODULE Spec2Model ----
(***************************************************************************)
(* rsimg: parallel image optimizer.                                        *)
(*                                                                         *)
(* main (src/main.rs) validates the arguments, collects the image files    *)
(* and calls process_all (src/processor.rs), which maps one worker closure *)
(* over the files on the rayon pool, collects one Result per file and      *)
(* turns the failures into one aggregate error.                            *)
(*                                                                         *)
(* File names are sequences of bytes.  An ASCII byte is written as its     *)
(* character, "C3" is the lead byte of a two-byte UTF-8 character, "A9"    *)
(* a continuation byte and "FF" a byte that is not valid UTF-8.            *)
(***************************************************************************)
EXTENDS Integers, Sequences, FiniteSets, TLC

(***************************************************************************)
(* Bounds of the model.                                                    *)
(***************************************************************************)
MaxFiles == 3
MaxScales == 2
MaxFormats == 2
MaxOps == 6

(***************************************************************************)
(* Program constants.                                                      *)
(***************************************************************************)
MaxQuality == 100
MinScale == 10
MaxScale == 100
FullScale == 100
MaxLabelLen == 35
LabelHead == 20
LabelTail == 12

(***************************************************************************)
(* Bytes, strings and paths.                                               *)
(***************************************************************************)
RECURSIVE Rep(_, _)
Rep(s, n) == IF n = 0 THEN << >> ELSE s \o Rep(s, n - 1)

UpperChars == <<"A","B","C","D","E","F","G","H","I","J","K","L","M",
                "N","O","P","Q","R","S","T","U","V","W","X","Y","Z">>
LowerChars == <<"a","b","c","d","e","f","g","h","i","j","k","l","m",
                "n","o","p","q","r","s","t","u","v","w","x","y","z">>

LowerChar(c) ==
    IF \E i \in 1..26 : UpperChars[i] = c
    THEN LowerChars[CHOOSE i \in 1..26 : UpperChars[i] = c]
    ELSE c

to_lowercase(s) == [i \in 1..Len(s) |-> LowerChar(s[i])]

Digits == <<"0","1","2","3","4","5","6","7","8","9">>

\* format!("{}", n) of an unsigned integer
RECURSIVE Dec(_)
Dec(n) == IF n < 10 THEN <<Digits[n + 1]>>
          ELSE Dec(n \div 10) \o <<Digits[(n % 10) + 1]>>

IsCont(b) == b = "A9"
IsLead(b) == b = "C3"
IsInvalid(b) == b = "FF"

\* OsStr::to_str succeeds exactly on valid UTF-8; ValidFrom scans the bytes
\* from index i
RECURSIVE ValidFrom(_, _)
ValidFrom(s, i) ==
    IF i > Len(s) THEN TRUE
    ELSE IF IsInvalid(s[i]) \/ IsCont(s[i]) THEN FALSE
    ELSE IF IsLead(s[i])
         THEN i + 1 <= Len(s) /\ IsCont(s[i + 1]) /\ ValidFrom(s, i + 2)
         ELSE ValidFrom(s, i + 1)

ValidUtf8(s) == ValidFrom(s, 1)

\* str::is_char_boundary, idx is a 0-based byte offset
is_char_boundary(s, idx) ==
    \/ idx = 0
    \/ idx = Len(s)
    \/ idx < Len(s) /\ ~IsCont(s[idx + 1])

\* the index of the last '.' at or before index i, 0 when there is none
RECURSIVE LastDotFrom(_, _)
LastDotFrom(name, i) ==
    IF i = 0 THEN 0
    ELSE IF name[i] = "." THEN i
    ELSE LastDotFrom(name, i - 1)

LastDot(name) == LastDotFrom(name, Len(name))

\* Path::file_stem: the name up to the final '.', the whole name when there
\* is no '.' or only a leading one
file_stem(name) ==
    IF LastDot(name) <= 1 THEN name ELSE SubSeq(name, 1, LastDot(name) - 1)

HasExtension(name) == LastDot(name) > 1

\* Path::extension
extension(name) == SubSeq(name, LastDot(name) + 1, Len(name))

NoPath == [dir |-> "", name |-> << >>]

\* PathBuf::join of a directory and a file name
Join(d, n) == [dir |-> d, name |-> n]

(***************************************************************************)
(* The files the input directory may hold, in the order the walk yields    *)
(* them.                                                                   *)
(***************************************************************************)
InDir == "in"
OutDir == "out"

Jpg == <<"j","p","g">>
Webp == <<"w","e","b","p">>
Png == <<"p","n","g">>
Jpeg == <<"j","p","e","g">>
Gif == <<"g","i","f">>

\* the content of a file: an image has the identity of its picture, its
\* dimensions, the codec that wrote it and whether its pixels were resampled
Image(id, w, h) ==
    [kind |-> "image", id |-> id, w |-> w, h |-> h, codec |-> "src", resampled |-> FALSE]
Corrupt ==
    [kind |-> "corrupt", id |-> "", w |-> 0, h |-> 0, codec |-> "", resampled |-> FALSE]
Partial ==
    [kind |-> "partial", id |-> "", w |-> 0, h |-> 0, codec |-> "", resampled |-> FALSE]
Text ==
    [kind |-> "text", id |-> "", w |-> 0, h |-> 0, codec |-> "", resampled |-> FALSE]

\* 45 bytes; byte offset 20 falls inside a two-byte character
LongName == <<"x">> \o Rep(<<"C3", "A9">>, 20) \o <<".">> \o Jpg

\* 40 bytes of ASCII
LongAscii == Rep(<<"b">>, 20) \o Rep(<<"y">>, 16) \o <<".">> \o Png

Catalogue == <<
    [name |-> LongAscii,            content |-> Corrupt],
    [name |-> LongName,             content |-> Image("x", 20, 20)],
    [name |-> <<"a", ".">> \o Jpg,  content |-> Image("a", 50, 50)],
    [name |-> <<"a", "_", "1", "0", "p", "c", "t", ".">> \o Jpg,
                                    content |-> Image("t", 4, 20)],
    [name |-> <<"FF", ".">> \o Jpg, content |-> Image("f", 20, 20)],
    [name |-> <<"n", ".", "t", "x", "t">>, content |-> Text] >>

ScaleDomain == {5, 10, 100}
FormatDomain == {Jpg, Webp, Gif}
QualityDomain == {80, 101}
ThreadDomain == {1, 2}

SeqsUpTo(S, n) == UNION {[1..m -> S] : m \in 1..n}


(***************************************************************************)
(* main.rs: validation and file collection.                                *)
(***************************************************************************)
VALID_EXTENSIONS ==
    {Jpg, Jpeg, Png, Gif, Webp, <<"b","m","p">>, <<"t","i","f","f">>,
     <<"t","i","f">>, <<"i","c","o">>}

QualityValid(q) == ~(q > MaxQuality)

ScaleValid(s) == ~(s < MinScale \/ s > MaxScale)

ScalesValid(ss) == \A i \in 1..Len(ss) : ScaleValid(ss[i])

\* the test of validate_image_file and of the directory walk
IsImageName(name) ==
    /\ HasExtension(name)
    /\ ValidUtf8(extension(name))
    /\ to_lowercase(extension(name)) \in VALID_EXTENSIONS

\* the indices of set S in increasing order
RECURSIVE Sorted(_)
Sorted(S) ==
    IF S = {} THEN << >>
    ELSE LET m == CHOOSE x \in S : \A y \in S : x <= y
         IN <<m>> \o Sorted(S \ {m})

\* the elements of set S in some fixed order
RECURSIVE SeqOf(_)
SeqOf(S) ==
    IF S = {} THEN << >>
    ELSE LET x == CHOOSE y \in S : TRUE
         IN <<x>> \o SeqOf(S \ {x})

\* the walk of the input directory on file system d: the entries of the
\* catalogue in their order, then what else the directory holds
Walk(present, d) ==
    LET all == Sorted(present)
        known == [i \in 1..Len(all) |-> Join(InDir, Catalogue[all[i]].name)]
        others == {p \in DOMAIN d : p.dir = InDir}
                  \ {known[i] : i \in 1..Len(all)}
    IN known \o SeqOf(others)

\* collect_image_files: a single file is validated and taken, a directory is
\* walked and filtered by extension
collect_image_files(kind, present, d) ==
    IF kind = "missing" THEN [ok |-> FALSE, files |-> << >>]
    ELSE IF kind = "file"
    THEN LET f == Join(InDir, Catalogue[CHOOSE i \in present : TRUE].name)
         IN IF IsImageName(f.name) THEN [ok |-> TRUE, files |-> <<f>>]
            ELSE [ok |-> FALSE, files |-> << >>]
    ELSE [ok |-> TRUE,
          files |-> SelectSeq(Walk(present, d), LAMBDA p : IsImageName(p.name))]

(***************************************************************************)
(* processor.rs: the pure parts.                                           *)
(***************************************************************************)
\* operations_per_image
operations_per_image(formats, scales) == Len(formats) * Len(scales)

\* the display name of the progress bar: a slice of a str panics when an end
\* of the slice is not a character boundary
display_name_panics(name) ==
    /\ Len(name) > MaxLabelLen
    /\ \/ ~is_char_boundary(name, LabelHead)
       \/ ~is_char_boundary(name, Len(name) - LabelTail)

display_name(name) ==
    IF Len(name) > MaxLabelLen
    THEN SubSeq(name, 1, LabelHead) \o <<".", ".", ".">>
         \o SubSeq(name, Len(name) - LabelTail + 1, Len(name))
    ELSE name

\* a conversion to u32 without the rounding
RoundScaledTruncates(dim, scale) == (dim * scale) \div 100

\* f32::round of dim * scale / 100: half away from zero.  The f32 product
\* is the exact one for the dimensions and scales of this model (it is 0
\* exactly when the exact quotient is below one half, for every dimension
\* and every scale 10..100; away from zero it can fall just below a half
\* that the exact quotient reaches, as for 450 at scale 13)
RoundScaled(dim, scale) == (2 * dim * scale + 100) \div 200

\* a resize that resamples at every scale
resize_image_always_resamples(img, scale) ==
    LET nw == RoundScaled(img.w, scale)
        nh == RoundScaled(img.h, scale)
    IN [ok |-> ~(nw = 0 \/ nh = 0), w |-> nw, h |-> nh, resampled |-> TRUE]

\* resize_image: a clone at full scale; otherwise the new dimensions and a
\* resampling to them, or the zero-dimension error
resize_image(img, scale) ==
    IF scale = FullScale
    THEN [ok |-> TRUE, w |-> img.w, h |-> img.h, resampled |-> FALSE]
    ELSE LET nw == RoundScaled(img.w, scale)
             nh == RoundScaled(img.h, scale)
         IN IF nw = 0 \/ nh = 0
            THEN [ok |-> FALSE, w |-> nw, h |-> nh, resampled |-> FALSE]
            ELSE [ok |-> TRUE, w |-> nw, h |-> nh, resampled |-> TRUE]

\* the match of save_image
Codec(fmt) ==
    LET f == to_lowercase(fmt)
    IN IF f = Jpg \/ f = Jpeg THEN "jpeg"
       ELSE IF f = Webp THEN "webp"
       ELSE IF f = Png THEN "png"
       ELSE "unsupported"

\* what a save can do: "ok"; "create" (the file cannot be created, nothing is
\* written); "encode" (the file was created and the encoder failed).  The
\* WebP bytes are encoded in memory before the file is touched.
SaveOutcomes(codec) ==
    IF codec = "unsupported" THEN {"unsupported"}
    ELSE IF codec = "webp" THEN {"ok", "create"}
    ELSE {"ok", "create", "encode"}

\* an inner loop that walks the formats backwards
FormatIdxReversed(k, nf) == nf - ((k - 1) % nf)

\* the scale and the format of the k-th task: scales outer, formats inner
ScaleIdx(k, nf) == ((k - 1) \div nf) + 1
FormatIdx(k, nf) == ((k - 1) % nf) + 1

\* an output name without its extension
output_name_no_ext(stem, scale, fmt) ==
    stem \o <<"_">> \o Dec(scale) \o <<"p", "c", "t", ".">>

output_name(stem, scale, fmt) ==
    stem \o <<"_">> \o Dec(scale) \o <<"p", "c", "t", ".">> \o fmt

\* an output always written next to its input
output_parent_of_input(path, output_dir) == path.dir

output_parent(path, output_dir) ==
    IF output_dir # "" THEN output_dir ELSE path.dir

output_path(path, scale, fmt, output_dir) ==
    Join(output_parent(path, output_dir), output_name(file_stem(path.name), scale, fmt))

\* the leaves of rayon's split of the index range lo..hi-1: a range splits
\* in the middle while it has two items and splits left
RECURSIVE Leaves(_, _, _)
Leaves(lo, hi, splits) ==
    IF (hi - lo) \div 2 >= 1 /\ splits > 0
    THEN LET mid == lo + ((hi - lo) \div 2)
         IN Leaves(lo, mid, splits \div 2) \cup Leaves(mid, hi, splits \div 2)
    ELSE {<<lo, hi>>}

\* the files folded after file i in the same leaf (files are numbered from 1)
LeafRest(i, n, threads) ==
    LET leaf == CHOOSE l \in Leaves(0, n, threads) : l[1] < i /\ i <= l[2]
    IN (i + 1)..leaf[2]


(***************************************************************************)
(* State.                                                                  *)
(***************************************************************************)
VARIABLES
    args,       \* the parsed command line: quality, scales, formats, output, threads, input
    present,    \* the catalogue entries that exist under the input path
    disk,       \* the file system: path -> content
    mainPc,     \* where main is: "validate", "collect", "process", "returned", "exit"
    exitCode,   \* the exit status of the process, -1 while it runs
    files,      \* the Vec<PathBuf> handed to process_all
    wk,         \* per file: the state of its worker closure
    log,        \* per file: the progress events and the saves, in order
    completed,  \* the files in the order their closures returned
    result,     \* what process_all returned
    report,     \* the errors process_all printed, in order
    last        \* the run before this one: its exit status, -1 when there was
                \* none, and the file system this run started on

vars == <<args, present, disk, mainPc, exitCode, files, wk, log, completed,
          result, report, last>>

NoOutcome == [state |-> "none", kind |-> "", path |-> NoPath, task |-> 0]
OkOutcome == [state |-> "ok", kind |-> "", path |-> NoPath, task |-> 0]
ErrOutcome(kind, path, task) ==
    [state |-> "err", kind |-> kind, path |-> path, task |-> task]

NoImage ==
    [kind |-> "none", id |-> "", w |-> 0, h |-> 0, codec |-> "", resampled |-> FALSE]

NewWorker ==
    [pc |-> "pending", pb |-> FALSE, label |-> << >>, img |-> NoImage,
     k |-> 0, outcome |-> NoOutcome]

Event(ev, a, b) == [ev |-> ev, a |-> a, b |-> b]

NoResult == [state |-> "none", count |-> 0]

N == Len(files)

\* a closure that is called again for a file that failed
PendingOrFailed(i) ==
    wk[i].pc = "pending" \/ (wk[i].pc = "done" /\ wk[i].outcome.state = "err")

\* the closure of the map is called once for each item
Pending(i) == wk[i].pc = "pending"

Running(i) == wk[i].pc = "task"
NumRunning == Cardinality({i \in 1..N : Running(i)})
Settled(i) == wk[i].pc \in {"done", "panicked", "skipped"}

\* a collect that stops at the first failure
AllDoneOrFirstError ==
    \/ \A i \in 1..N : wk[i].pc = "done"
    \/ \E i \in 1..N : wk[i].pc = "done" /\ wk[i].outcome.state = "err"

\* collect has every result: every closure returned
AllDone == \A i \in 1..N : wk[i].pc = "done"

\* the file system before the first run
InitialDisk(entries) ==
    [p \in {Join(InDir, Catalogue[i].name) : i \in entries} |->
        Catalogue[CHOOSE i \in entries : Join(InDir, Catalogue[i].name) = p].content]

Init ==
    /\ args \in [quality : QualityDomain,
                 scales : SeqsUpTo(ScaleDomain, MaxScales),
                 formats : SeqsUpTo(FormatDomain, MaxFormats),
                 output : {"", OutDir},
                 threads : ThreadDomain,
                 input : {"dir", "file", "missing"}]
    /\ present \in SUBSET (1..Len(Catalogue))
    /\ Cardinality(present) <= MaxFiles
    /\ Len(args.scales) * Len(args.formats) * Cardinality(present) <= MaxOps
    /\ args.input = "missing" => present = {}
    /\ args.input = "file" => Cardinality(present) = 1
    /\ disk = InitialDisk(present)
    /\ mainPc = "validate"
    /\ exitCode = -1
    /\ files = << >>
    /\ wk = << >>
    /\ log = << >>
    /\ completed = << >>
    /\ result = NoResult
    /\ report = << >>
    /\ last = [code |-> -1, disk |-> disk]

Exit(code) == mainPc' = "exit" /\ exitCode' = code

(***************************************************************************)
(* main, up to the call of process_all.                                    *)
(***************************************************************************)
\* main.rs 100-110: the quality and the scales
Validate ==
    /\ mainPc = "validate"
    /\ IF QualityValid(args.quality) /\ ScalesValid(args.scales)
       THEN mainPc' = "collect" /\ exitCode' = exitCode
       ELSE Exit(1)
    /\ UNCHANGED <<last, args, present, disk, files, wk, log, completed, result, report>>

\* main.rs 113-128 and 183: the files, the early return on an empty list, the
\* output directory, the call of process_all
Collect ==
    /\ mainPc = "collect"
    /\ LET c == collect_image_files(args.input, present, disk)
       IN IF ~c.ok
          THEN Exit(1) /\ UNCHANGED <<files, wk, log>>
          ELSE IF c.files = << >>
          THEN Exit(0) /\ UNCHANGED <<files, wk, log>>
          ELSE \E created \in (IF args.output # "" THEN BOOLEAN ELSE {TRUE}) :
                 IF ~created
                 THEN Exit(1) /\ UNCHANGED <<files, wk, log>>
                 ELSE /\ mainPc' = "process"
                      /\ exitCode' = exitCode
                      /\ files' = c.files
                      /\ wk' = [i \in 1..Len(c.files) |-> NewWorker]
                      /\ log' = [i \in 1..Len(c.files) |-> << >>]
    /\ UNCHANGED <<last, args, present, disk, completed, result, report>>


(***************************************************************************)
(* process_all: the closure mapped over the files.                         *)
(***************************************************************************)
\* errors pushed to a shared list as the workers complete
ErrorOrderByCompletion(n, done) == done

\* the order in which errors show in the report: results keeps the order of
\* the files, whatever the order of completion
ErrorOrder(n, done) == [i \in 1..n |-> i]

\* a count of the last index
ErrorCountOffByOne(errors) == Len(errors) - 1

\* the number process_all reports
ErrorCount(errors) == Len(errors)

\* a loop that ends one task early
AfterTaskSkipsLast(ok, k, total) ==
    IF ~ok THEN "done" ELSE IF k >= total - 1 THEN "done" ELSE "task"

\* a worker that goes on with the next task after a failure
AfterTaskKeepGoing(ok, k, total) ==
    IF k = total THEN "done" ELSE "task"

\* what the worker does after a task: the first failure ends the file
AfterTask(ok, k, total) ==
    IF ~ok THEN "done" ELSE IF k = total THEN "done" ELSE "task"

\* processor.rs 60-93: the bar, when there is one, is finished with the mark
\* of the result
FinishBar(l, pb, outcome) ==
    IF pb THEN Append(l, Event("finish", IF outcome.state = "ok" THEN 1 ELSE 0, 0))
    ELSE l

\* processor.rs 26-48 and 127-144: the progress bar and its label, then the
\* decoding and the stem.  A name that is not UTF-8 gets no bar.  A panic of
\* the label unwinds the fold of the leaf, so the files after this one in
\* the leaf are never mapped.  A file that fails here returns at once.
Begin(i) ==
    /\ mainPc = "process"
    /\ Pending(i)
    /\ NumRunning < args.threads
    /\ args.threads = 1 => \A j \in 1..(i - 1) : wk[j].pc # "pending"
    /\ LET path == files[i]
           name == path.name
           c == disk[path]
           total == operations_per_image(args.formats, args.scales)
           pb == ValidUtf8(name)
           started == IF pb THEN Append(log[i], Event("start", total, 0)) ELSE log[i]
           label == IF pb THEN display_name(name) ELSE << >>
           Fail(o) ==
               /\ wk' = [wk EXCEPT ![i].pc = "done", ![i].pb = pb, ![i].label = label,
                                   ![i].outcome = o]
               /\ log' = [log EXCEPT ![i] = FinishBar(started, pb, o)]
               /\ completed' = Append(completed, i)
       IN IF pb /\ display_name_panics(name)
          THEN /\ wk' = [j \in 1..N |->
                           IF j = i THEN [wk[j] EXCEPT !.pc = "panicked", !.pb = TRUE]
                           ELSE IF j \in LeafRest(i, N, args.threads) /\ wk[j].pc = "pending"
                           THEN [wk[j] EXCEPT !.pc = "skipped"]
                           ELSE wk[j]]
               /\ log' = [log EXCEPT ![i] = started]
               /\ completed' = completed
          ELSE IF c.kind # "image"
          THEN Fail(ErrOutcome("open", path, 0))
          ELSE IF ~ValidUtf8(file_stem(name))
          THEN Fail(ErrOutcome("filename", path, 0))
          ELSE IF total = 0
          THEN Fail(OkOutcome)
          ELSE /\ wk' = [wk EXCEPT ![i].pc = "task", ![i].pb = pb, ![i].label = label,
                                   ![i].img = c, ![i].k = 1]
               /\ log' = [log EXCEPT ![i] = started]
               /\ completed' = completed
    /\ UNCHANGED <<last, args, present, disk, mainPc, exitCode, files, result, report>>

\* processor.rs 147-162: one turn of the loops: the resize when a scale
\* begins, the save, the increment of the bar; and, when the loops end,
\* processor.rs 60-93: the bar is finished and the closure returns
Task(i) ==
    /\ mainPc = "process"
    /\ wk[i].pc = "task"
    /\ LET nf == Len(args.formats)
           total == operations_per_image(args.formats, args.scales)
           k == wk[i].k
           si == ScaleIdx(k, nf)
           fi == FormatIdx(k, nf)
           scale == args.scales[si]
           fmt == args.formats[fi]
           r == resize_image(wk[i].img, scale)
           out == output_path(files[i], scale, fmt, args.output)
           Step(ok, o, events) ==
               LET pc == AfterTask(ok, k, total)
                   oc == IF wk[i].outcome.state = "err" THEN wk[i].outcome
                         ELSE IF ~ok THEN o
                         ELSE IF pc = "done" THEN OkOutcome
                         ELSE wk[i].outcome
                   l == log[i] \o events
               IN /\ wk' = [wk EXCEPT ![i].pc = pc,
                                      ![i].k = IF pc = "task" THEN k + 1 ELSE k,
                                      ![i].outcome = oc]
                  /\ log' = [log EXCEPT ![i] = IF pc = "done"
                                               THEN FinishBar(l, wk[i].pb, oc) ELSE l]
                  /\ completed' = IF pc = "done" THEN Append(completed, i)
                                  ELSE completed
           Put(c) == disk' = [p \in DOMAIN disk \cup {out} |->
                                IF p = out THEN c ELSE disk[p]]
       IN IF ~r.ok
          THEN /\ Step(FALSE, ErrOutcome("resize", NoPath, k), <<Event("fail", si, fi)>>)
               /\ disk' = disk
          ELSE \E o \in SaveOutcomes(Codec(fmt)) :
                 IF o = "ok"
                 THEN /\ Put([kind |-> "image", id |-> wk[i].img.id, w |-> r.w,
                              h |-> r.h, codec |-> Codec(fmt),
                              resampled |-> r.resampled])
                      /\ Step(TRUE, OkOutcome,
                              <<Event("write", si, fi)>>
                              \o (IF wk[i].pb THEN <<Event("inc", si, fi)>> ELSE << >>))
                 ELSE /\ Step(FALSE, ErrOutcome("save", out, k), <<Event("fail", si, fi)>>)
                      /\ IF o = "encode" THEN Put(Partial) ELSE disk' = disk
    /\ UNCHANGED <<last, args, present, mainPc, exitCode, files, result, report>>

(***************************************************************************)
(* process_all: after the parallel map.                                    *)
(***************************************************************************)
\* a panic of a closure is resumed by collect once every leaf is over: it
\* unwinds process_all and main
Unwind ==
    /\ mainPc = "process"
    /\ \A i \in 1..N : Settled(i)
    /\ \E i \in 1..N : wk[i].pc = "panicked"
    /\ Exit(101)
    /\ UNCHANGED <<last, args, present, disk, files, wk, log, completed, result, report>>

\* processor.rs 97-114: the errors of the results and the aggregate
Return ==
    /\ mainPc = "process"
    /\ AllDone
    /\ LET order == ErrorOrder(N, completed)
           errs == SelectSeq(order, LAMBDA i : wk[i].outcome.state = "err")
           errors == [j \in 1..Len(errs) |-> wk[errs[j]].outcome]
       IN /\ report' = errors
          /\ result' = IF errors # << >>
                       THEN [state |-> "err", count |-> ErrorCount(errors)]
                       ELSE [state |-> "ok", count |-> 0]
    /\ mainPc' = "returned"
    /\ UNCHANGED <<last, args, present, disk, exitCode, files, wk, log, completed>>

\* main.rs 183-205: the ? on the result of process_all
MainExit ==
    /\ mainPc = "returned"
    /\ Exit(IF result.state = "ok" THEN 0 ELSE 1)
    /\ UNCHANGED <<last, args, present, disk, files, wk, log, completed, result, report>>

Next ==
    \/ Validate
    \/ Collect
    \/ \E i \in 1..N : Begin(i)
    \/ \E i \in 1..N : Task(i)
    \/ Unwind
    \/ Return
    \/ MainExit

Spec == Init /\ [][Next]_vars

(***************************************************************************)
(* The program run a second time, with the same command line, on the file  *)
(* system the first run left.                                              *)
(***************************************************************************)
\* main.rs 82-84: a new process starts from the beginning
Rerun ==
    /\ mainPc = "exit"
    /\ last.code = -1
    /\ last' = [code |-> exitCode, disk |-> disk]
    /\ mainPc' = "validate"
    /\ exitCode' = -1
    /\ files' = << >>
    /\ wk' = << >>
    /\ log' = << >>
    /\ completed' = << >>
    /\ result' = NoResult
    /\ report' = << >>
    /\ UNCHANGED <<args, present, disk>>

\* the runs of one file, or of a directory of up to two entries, by one thread
InitRerun ==
    /\ Init
    /\ args.threads = 1
    /\ Cardinality(present) <= 2
    /\ Len(args.scales) * Len(args.formats) * Cardinality(present) <= 2

NextRerun == Next \/ Rerun

SpecRerun == InitRerun /\ [][NextRerun]_vars


(***************************************************************************)
(* Properties.                                                             *)
(***************************************************************************)
Failed == {i \in 1..N : wk[i].outcome.state = "err"}
Succeeded == {i \in 1..N : wk[i].outcome.state = "ok"}

\* the process is over and process_all had been called
RunOver == mainPc = "exit" /\ files # << >>

Wrote(i, a, b) == \E p \in 1..Len(log[i]) : log[i][p] = Event("write", a, b)

\* the errors of the files of a sequence, in the order of the sequence
ErrorsIn(order) ==
    LET errs == SelectSeq(order, LAMBDA i : i \in Failed)
    IN [j \in 1..Len(errs) |-> wk[errs[j]].outcome]

Positions(seq, x) == {p \in 1..Len(seq) : seq[p] = x}

Range(seq) == {seq[j] : j \in 1..Len(seq)}

\* the path the output of file i for scale a and format b is expected at
ExpectedPath(i, a, b) ==
    [dir |-> IF args.output = "" THEN files[i].dir ELSE args.output,
     name |-> file_stem(files[i].name) \o <<"_">> \o Dec(args.scales[a])
              \o <<"p", "c", "t", ".">> \o args.formats[b]]

\* the output files file i has written
OutputsOf(i) ==
    {ExpectedPath(i, log[i][p].a, log[i][p].b) :
        p \in {q \in 1..Len(log[i]) : log[i][q].ev = "write"}} \cap DOMAIN disk

NumEvents(i, ev) == Cardinality({p \in 1..Len(log[i]) : log[i][p].ev = ev})

\* C1: when the run is over every input file was attempted (none was left
\* out because of another file), and every file that did not fail has a
\* save of every scale and format.
C1_FailureIsolation ==
    RunOver =>
        \A i \in 1..N :
            /\ wk[i].pc \notin {"pending", "skipped"}
            /\ i \notin Failed /\ wk[i].pc # "panicked" =>
                \A a \in 1..Len(args.scales), b \in 1..Len(args.formats) : Wrote(i, a, b)

\* C2: when process_all returns, it returns success exactly when no file
\* failed, an aggregate failure counts exactly the failed files, and the
\* process then exits with a non-zero status.
C2_AggregateResult ==
    result.state # "none" =>
        /\ result.state = "ok" <=> Failed = {}
        /\ result.state = "err" => result.count = Cardinality(Failed)
        /\ mainPc = "exit" => (exitCode # 0 <=> result.state = "err")

C2_Witness ==
    /\ mainPc = "exit"
    /\ result.state = "err"
    /\ result.count = 2
    /\ Succeeded # {}

\* C3: when process_all produces its result every worker has returned, every
\* file has one outcome and completed exactly once, and the report holds one
\* entry per failed file.
C3_OneOutcomePerFile ==
    result.state # "none" =>
        /\ \A i \in 1..N :
              /\ wk[i].pc = "done"
              /\ wk[i].outcome.state \in {"ok", "err"}
              /\ Cardinality(Positions(completed, i)) = 1
              /\ NumEvents(i, "start") <= 1
              /\ NumEvents(i, "finish") <= 1
        /\ Len(completed) = N
        /\ Len(report) = Cardinality(Failed)

C3_Witness ==
    /\ result.state # "none"
    /\ N = 3
    /\ \E p \in 1..2 : completed[p] > completed[p + 1]

\* C4 as stated: the aggregate failure lists the errors in the order in
\* which the workers completed.
C4_CompletionOrder ==
    result.state = "err" => report = ErrorsIn(completed)

\* C4 amended: the aggregate failure lists the errors in the order in which
\* the files were submitted, whatever the order in which the workers
\* completed.
C4_SubmissionOrder ==
    result.state = "err" =>
        /\ Len(report) = Cardinality(Failed)
        /\ \A j \in 1..Len(report) :
              \E i \in Failed :
                 /\ report[j] = wk[i].outcome
                 /\ j = Cardinality({f \in Failed : f <= i})

C4_Witness ==
    /\ result.state = "err"
    /\ Len(report) >= 2
    /\ report # ErrorsIn(completed)

\* C5: every error of the final report carries the path of the input file
\* it belongs to.
C5_ErrorNamesInput ==
    result.state = "err" =>
        \A i \in Failed : wk[i].outcome.path = files[i]


\* C6: the first task failure of a file becomes its outcome and ends its
\* work: nothing is attempted after it, and the outputs written before it
\* are still on disk.
C6_FirstFailureStopsFile ==
    \A i \in 1..N :
        \A p \in 1..Len(log[i]) :
            log[i][p].ev = "fail" =>
                /\ \A q \in (p + 1)..Len(log[i]) : log[i][q].ev = "finish"
                /\ wk[i].pc = "done"
                /\ wk[i].outcome.state = "err"
                /\ wk[i].outcome.task =
                      (log[i][p].a - 1) * Len(args.formats) + log[i][p].b
                /\ \A q \in 1..(p - 1) :
                      log[i][q].ev = "write" =>
                          ExpectedPath(i, log[i][q].a, log[i][q].b) \in DOMAIN disk

C6_Witness ==
    /\ mainPc = "exit"
    /\ \E i \in 1..N :
          \E p \in 2..Len(log[i]) :
              /\ log[i][p].ev = "fail"
              /\ \E q \in 1..(p - 1) : log[i][q].ev = "write"
              /\ wk[i].outcome.task < Len(args.scales) * Len(args.formats)

\* C7 as stated: a successfully processed input file has |S| x |F| output
\* files.
C7_OutputCount ==
    \A i \in Succeeded :
        Cardinality(OutputsOf(i)) = Len(args.scales) * Len(args.formats)

\* C7 amended: a successfully processed input file was saved |S| x |F|
\* times, and its output files are as many as the distinct scales times the
\* distinct formats.
C7_OutputCountDistinct ==
    \A i \in Succeeded :
        /\ NumEvents(i, "write") = Len(args.scales) * Len(args.formats)
        /\ Cardinality(OutputsOf(i)) =
              Cardinality(Range(args.scales)) * Cardinality(Range(args.formats))

C7_Witness ==
    /\ mainPc = "exit"
    /\ Succeeded # {}
    /\ Len(args.scales) = 2 /\ args.scales[1] = args.scales[2]
    /\ Len(args.formats) = 2 /\ args.formats[1] # args.formats[2]

\* C8: every output is at <output_parent>/<stem>_<scale>pct.<format>, with
\* the configured output directory as parent when there is one and the
\* directory of the input otherwise; nothing else is written; and two tasks
\* of a file that differ in scale or format have different output paths.
C8_OutputPath ==
    /\ \A i \in 1..N :
          \A a \in 1..Len(args.scales), b \in 1..Len(args.formats) :
              /\ Wrote(i, a, b) => ExpectedPath(i, a, b) \in DOMAIN disk
              /\ \A a2 \in 1..Len(args.scales), b2 \in 1..Len(args.formats) :
                    (args.scales[a] # args.scales[a2] \/ args.formats[b] # args.formats[b2])
                    => output_path(files[i], args.scales[a], args.formats[b], args.output)
                       # output_path(files[i], args.scales[a2], args.formats[b2], args.output)
    /\ \A p \in DOMAIN disk :
          \/ \E c \in present : p = Join(InDir, Catalogue[c].name)
          \/ \E i \in 1..N, a \in 1..Len(args.scales), b \in 1..Len(args.formats) :
                p = ExpectedPath(i, a, b)

C8_Witness ==
    /\ args.output = OutDir
    /\ Len(args.scales) = 2 /\ args.scales[1] # args.scales[2]
    /\ \E i \in 1..N : Wrote(i, 1, 1) /\ Wrote(i, 2, 1)

Lex(e) == (e.a - 1) * Len(args.formats) + e.b

\* C9: within one file the tasks run in the order of the scales and, within
\* a scale, of the formats; the increment of a task follows its save and
\* comes before the next save.
C9_TaskOrder ==
    \A i \in 1..N :
        LET l == log[i]
            tasks == SelectSeq(l, LAMBDA e : e.ev \in {"write", "fail"})
        IN /\ \A j \in 1..Len(tasks) : Lex(tasks[j]) = j /\ tasks[j].b \in 1..Len(args.formats)
           /\ \A p \in 1..Len(l) :
                 /\ (l[p].ev = "write" /\ wk[i].pb) =>
                       p < Len(l) /\ l[p + 1] = Event("inc", l[p].a, l[p].b)
                 /\ l[p].ev = "inc" =>
                       p > 1 /\ l[p - 1] = Event("write", l[p].a, l[p].b)

C9_Witness ==
    /\ Len(args.formats) = 2
    /\ \E i \in 1..N : Wrote(i, 1, 2) /\ Wrote(i, 2, 1) /\ wk[i].pb

Progress(i) == SelectSeq(log[i], LAMBDA e : e.ev \in {"start", "inc", "finish"})

\* C10: for every input file the sink gets one start announcing the total,
\* then one increment per completed task and no more than the total, then
\* one finish, marked success exactly when the outcome of the file is
\* success.
C10_ProgressEvents ==
    RunOver =>
        \A i \in 1..N :
            LET pr == Progress(i)
                total == Len(args.scales) * Len(args.formats)
            IN /\ Len(pr) >= 2
               /\ pr[1] = Event("start", total, 0)
               /\ pr[Len(pr)] = Event("finish", IF i \in Succeeded THEN 1 ELSE 0, 0)
               /\ \A p \in 2..(Len(pr) - 1) : pr[p].ev = "inc"
               /\ NumEvents(i, "inc") = NumEvents(i, "write")
               /\ NumEvents(i, "inc") <= total

\* the list of files main collects on the file system the run started on
Collected == collect_image_files(args.input, present, last.disk)

\* the pre-flight validation fails: the quality, a scale, or an empty list
PreflightFails ==
    \/ ~(args.quality \in 0..MaxQuality)
    \/ \E j \in 1..Len(args.scales) : ~(args.scales[j] \in MinScale..MaxScale)
    \/ Collected.ok /\ Collected.files = << >>

\* C11: a run whose pre-flight validation fails (quality, scales, or an
\* empty list of files) ends with a non-zero exit status, before any worker
\* starts and before any output is written.
C11_PreflightExit ==
    (mainPc = "exit" /\ PreflightFails) =>
        /\ exitCode # 0
        /\ wk = << >>
        /\ disk = last.disk

SupportedFormats == {Jpg, Jpeg, Png, Webp}

\* C12: whenever a worker is running, every scale of the matrix is in
\* 10..100, every format is one of jpg, jpeg, png, webp, and the matrix is
\* not empty.
C12_LegalMatrix ==
    (\E i \in 1..N : Running(i)) =>
        /\ \A j \in 1..Len(args.scales) : args.scales[j] \in MinScale..MaxScale
        /\ \A j \in 1..Len(args.formats) : args.formats[j] \in SupportedFormats
        /\ Len(args.scales) * Len(args.formats) > 0

\* the tasks of a file from the k-th on, run on file system d with no
\* failure of the environment: whether they succeed, and the file system left
RECURSIVE TasksFrom(_, _, _, _, _)
TasksFrom(path, img, k, d, a) ==
    IF k > operations_per_image(a.formats, a.scales) THEN [ok |-> TRUE, disk |-> d]
    ELSE LET scale == a.scales[ScaleIdx(k, Len(a.formats))]
             fmt == a.formats[FormatIdx(k, Len(a.formats))]
             r == resize_image(img, scale)
             out == output_path(path, scale, fmt, a.output)
             c == [kind |-> "image", id |-> img.id, w |-> r.w, h |-> r.h,
                   codec |-> Codec(fmt), resampled |-> r.resampled]
         IN IF ~r.ok \/ Codec(fmt) = "unsupported" THEN [ok |-> FALSE, disk |-> d]
            ELSE TasksFrom(path, img, k + 1,
                           [p \in DOMAIN d \cup {out} |-> IF p = out THEN c ELSE d[p]], a)

\* one file processed from its decoding to its last task on file system d
FileAlone(path, d, a) ==
    IF d[path].kind # "image" \/ ~ValidUtf8(file_stem(path.name))
    THEN [ok |-> FALSE, disk |-> d]
    ELSE TasksFrom(path, d[path], 1, d, a)

\* the number of files that fail when the files from the j-th on are
\* processed one after the other, in their order, starting on file system d
RECURSIVE FailuresInOrder(_, _, _, _)
FailuresInOrder(fs, j, d, a) ==
    IF j > Len(fs) THEN 0
    ELSE LET r == FileAlone(fs[j], d, a)
         IN (IF r.ok THEN 0 ELSE 1) + FailuresInOrder(fs, j + 1, r.disk, a)

\* no save of the run failed for a reason of the environment
NoEnvFault ==
    \A i \in Failed :
        wk[i].outcome.kind = "save" =>
            Codec(args.formats[FormatIdx(wk[i].outcome.task, Len(args.formats))])
                = "unsupported"

\* C13: a batch yields the same numbers of successes and failures under
\* every interleaving of its workers: whenever process_all returns and no
\* save failed for a reason of the environment, as many files have failed as
\* fail when the same files are processed one after the other.
C13_SameOutcomes ==
    (result.state # "none" /\ NoEnvFault) =>
        Cardinality(Failed) = FailuresInOrder(files, 1, last.disk, args)

\* file i has attempted the task of scale a and format b
Attempted(i, a, b) ==
    \E p \in 1..Len(log[i]) : log[i][p].ev \in {"write", "fail"}
                              /\ log[i][p].a = a /\ log[i][p].b = b

\* scale s takes a dimension d to zero: d * s / 100 rounds, half away from
\* zero, to 0 exactly when it is below one half
RoundsToZero(d, s) == 2 * d * s < 100

Degenerate(img, s) == RoundsToZero(img.w, s) \/ RoundsToZero(img.h, s)

\* the outcome of file i is the degenerate-size error of its scale a
ResizeFailedAt(i, a) ==
    /\ wk[i].outcome.state = "err"
    /\ wk[i].outcome.kind = "resize"
    /\ wk[i].outcome.task > 0
    /\ ScaleIdx(wk[i].outcome.task, Len(args.formats)) = a

\* C14: for a scale other than 100 that a file reaches, the resize fails with
\* the degenerate-size error exactly when the width or the height times the
\* scale over 100 rounds to 0; the error is the outcome of the file, raised at
\* the first task of the scale, and the file writes no output of that scale
\* or of a later task.
C14_DegenerateSize ==
    \A i \in 1..N :
        \A a \in 1..Len(args.scales) :
            (args.scales[a] # FullScale /\ Attempted(i, a, 1)) =>
                /\ ResizeFailedAt(i, a) <=> Degenerate(wk[i].img, args.scales[a])
                /\ ResizeFailedAt(i, a) =>
                      /\ i \in Failed
                      /\ wk[i].pc = "done"
                      /\ wk[i].outcome.task = (a - 1) * Len(args.formats) + 1
                      /\ \A a2 \in a..Len(args.scales), b \in 1..Len(args.formats) :
                            ~Wrote(i, a2, b)

C14_Witness ==
    /\ mainPc = "exit"
    /\ \E i \in 1..N :
          /\ ResizeFailedAt(i, 2)
          /\ Wrote(i, 1, 1)
    /\ \E j \in 1..N, a \in 1..Len(args.scales) :
          /\ args.scales[a] # FullScale
          /\ Wrote(j, a, 1)

\* C15: a task of scale 100 never fails in the resize, and the image it
\* saves has the width and the height of the decoded image and was not
\* resampled.
C15_IdentityResize ==
    \A i \in 1..N :
        \A a \in 1..Len(args.scales) :
            args.scales[a] = FullScale =>
                /\ ~ResizeFailedAt(i, a)
                /\ \A b \in 1..Len(args.formats) :
                      (Wrote(i, a, b) /\ disk[ExpectedPath(i, a, b)].kind = "image") =>
                          /\ disk[ExpectedPath(i, a, b)].w = wk[i].img.w
                          /\ disk[ExpectedPath(i, a, b)].h = wk[i].img.h
                          /\ disk[ExpectedPath(i, a, b)].id = wk[i].img.id
                          /\ ~disk[ExpectedPath(i, a, b)].resampled

C15_Witness ==
    \E i \in 1..N, a \in 1..Len(args.scales) :
        /\ args.scales[a] = FullScale
        /\ Wrote(i, a, 1)
        /\ wk[i].img.w = 4
        /\ disk[ExpectedPath(i, a, 1)].kind = "image"
        /\ disk[ExpectedPath(i, a, 1)].w = 4

\* C16: when the program is run twice with the same configuration and both
\* runs succeed, the files and their contents after the second run are those
\* after the first.
C16_RerunIdempotent ==
    (mainPc = "exit" /\ last.code = 0 /\ exitCode = 0) => disk = last.disk

\* the paths some task of the run has saved to with success
SavedPaths == UNION {OutputsOf(i) : i \in 1..N}

\* C17: every successful task has its output file, and a task that failed or
\* was never attempted has created no file at its output path: a file there
\* was there before the run or is the output of a successful task.
C17_OneFilePerSuccess ==
    \A i \in 1..N :
        \A a \in 1..Len(args.scales), b \in 1..Len(args.formats) :
            /\ Wrote(i, a, b) => ExpectedPath(i, a, b) \in DOMAIN disk
            /\ ~Wrote(i, a, b) =>
                  \/ ExpectedPath(i, a, b) \notin DOMAIN disk
                  \/ ExpectedPath(i, a, b) \in DOMAIN last.disk
                  \/ ExpectedPath(i, a, b) \in SavedPaths

TaskEvents(i) == SelectSeq(log[i], LAMBDA e : e.ev \in {"write", "fail"})

\* C18: each file goes from pending through its tasks to success or failure.
\* A pending file has done nothing; a running file is at task k after k - 1
\* tasks that succeeded; the tasks were attempted in increasing order, each
\* once; a file that succeeded or failed has completed once, a failure
\* being its last task, and nothing follows its end: it is never run again.
C18_FileLifecycle ==
    \A i \in 1..N :
        LET te == TaskEvents(i)
            total == Len(args.scales) * Len(args.formats)
        IN /\ \A j \in 1..Len(te) : Lex(te[j]) = j
           /\ \A j \in 1..(Len(te) - 1) : te[j].ev = "write"
           /\ \A p \in 1..Len(log[i]) : log[i][p].ev = "finish" => p = Len(log[i])
           /\ NumEvents(i, "start") <= 1
           /\ wk[i].pc \in {"pending", "skipped"} =>
                 log[i] = << >> /\ wk[i].outcome.state = "none" /\ wk[i].k = 0
           /\ wk[i].pc = "panicked" => te = << >> /\ wk[i].outcome.state = "none"
           /\ wk[i].pc = "task" =>
                 /\ wk[i].outcome.state = "none"
                 /\ wk[i].k \in 1..total
                 /\ Len(te) = wk[i].k - 1
                 /\ \A j \in 1..Len(te) : te[j].ev = "write"
                 /\ Positions(completed, i) = {}
           /\ wk[i].pc = "done" =>
                 /\ wk[i].outcome.state \in {"ok", "err"}
                 /\ Cardinality(Positions(completed, i)) = 1
                 /\ wk[i].outcome.state = "ok" =>
                       Len(te) = total /\ te[total].ev = "write"
                 /\ wk[i].outcome.state = "err" =>
                       /\ Len(te) = wk[i].outcome.task
                       /\ Len(te) > 0 => te[Len(te)].ev = "fail"

C18_Witness ==
    /\ mainPc = "exit"
    /\ \E i \in Failed : wk[i].outcome.task >= 2
    /\ \E i \in Failed : wk[i].outcome.task = 0
    /\ Succeeded # {}

\* C19: no worker saves to a path that is an input file of the batch, and
\* every input file keeps the content it had when the run started.
C19_InputsNeverWritten ==
    /\ \A i \in 1..N :
          \A a \in 1..Len(args.scales), b \in 1..Len(args.formats) :
              Attempted(i, a, b) => ExpectedPath(i, a, b) \notin Range(files)
    /\ \A j \in 1..N : disk[files[j]] = last.disk[files[j]]

\* the label the claim gives a name: the name itself up to 35 bytes, else
\* its first 20 bytes, three dots and its last 12 bytes
ShownName(name) ==
    IF Len(name) <= MaxLabelLen THEN name
    ELSE [p \in 1..(LabelHead + 3 + LabelTail) |->
            IF p <= LabelHead THEN name[p]
            ELSE IF p <= LabelHead + 3 THEN "."
            ELSE name[Len(name) - (LabelHead + 3 + LabelTail) + p]]

\* C20: building the label of a file never aborts the run: when the run is
\* over every file has returned an outcome, and the label of every file that
\* has a bar is the name, shortened when it is longer than 35 bytes.
C20_LabelNeverAborts ==
    RunOver =>
        /\ exitCode \in {0, 1}
        /\ \A i \in 1..N :
              /\ wk[i].pc = "done"
              /\ wk[i].outcome.state \in {"ok", "err"}
              /\ wk[i].pb => wk[i].label = ShownName(files[i].name)

====
